---- MODULE Spec2Model ----
(***************************************************************************)
(* EDIFACT ORDERS generators of AScotM/edifact_order:                      *)
(*   order_export.py          generate_orders             (variant "export")*)
(*   refactor1/order.py       generate_edifact_orders     (variant "r1")    *)
(*   refactor2/order_edi.py   generate_edifact_orders     (variant "r2")    *)
(* A Python str is a sequence of one-character strings; a Decimal is a     *)
(* record [coef, scale] standing for coef / 10^scale.                      *)
(***************************************************************************)
EXTENDS Integers, Sequences, FiniteSets, TLC

VARIABLES
    variant,        \* which generator is called
    input,          \* the order document as the caller built it (never changes)
    data,           \* the caller's dict object, as the callee sees and mutates it
    output_file,    \* whether the caller asked for a file sink
    segments,       \* the list of segment strings under construction
    total_amount,   \* Decimal accumulator
    segment_count,  \* the count written into UNT
    i,              \* position of the party / item loop
    pc,             \* position in the generator
    message,        \* edifact_message, the joined text
    result,         \* what the caller receives: a returned str or a raised exception
    file,           \* the sink: [written, text]
    value,          \* escape_edifact: the string being rewritten
    original,       \* escape_edifact: its argument
    k               \* escape_edifact: position in EDIFACT_SPECIAL_CHARS

vars == <<variant, input, data, output_file, segments, total_amount, segment_count,
          i, pc, message, result, file, value, original, k>>

(***************************************************************************)
(* Bounds                                                                  *)
(***************************************************************************)
MaxLen == 3
MaxItems == 2
MaxParties == 2

(***************************************************************************)
(* Strings                                                                 *)
(***************************************************************************)
\* sep.join(ss)
RECURSIVE Join(_, _)
Join(sep, ss) ==
    IF ss = <<>> THEN <<>>
    ELSE IF Len(ss) = 1 THEN ss[1]
    ELSE ss[1] \o sep \o Join(sep, Tail(ss))

\* s.replace(c, r) for a one-character c
RECURSIVE Replace(_, _, _)
Replace(s, c, r) ==
    IF s = <<>> THEN <<>>
    ELSE (IF Head(s) = c THEN r ELSE <<Head(s)>>) \o Replace(Tail(s), c, r)

StartsWith(s, p) == Len(s) >= Len(p) /\ SubSeq(s, 1, Len(p)) = p

Digits == <<"0", "1", "2", "3", "4", "5", "6", "7", "8", "9">>

IsDigit(c) == \E d \in 1..10 : Digits[d] = c

DigitVal(c) == (CHOOSE d \in 1..10 : Digits[d] = c) - 1

\* str(n) for an int n >= 0
RECURSIVE NatStr(_)
NatStr(n) == IF n < 10 THEN <<Digits[n + 1]>> ELSE NatStr(n \div 10) \o <<Digits[(n % 10) + 1]>>

\* str(n) for an int
IntStr(n) == IF n < 0 THEN <<"-">> \o NatStr(-n) ELSE NatStr(n)

RECURSIVE DigitsVal(_, _)
DigitsVal(s, acc) == IF s = <<>> THEN acc ELSE DigitsVal(Tail(s), 10 * acc + DigitVal(Head(s)))

AllDigits(s) == s # <<>> /\ \A j \in 1..Len(s) : IsDigit(s[j])

(***************************************************************************)
(* refactor2: SegmentGenerator.escape_edifact                              *)
(***************************************************************************)
\* the same characters with the release character handled last, so that a ?
\* inserted for an earlier delimiter is escaped again
EDIFACT_SPECIAL_CHARS_QLast == <<"'", "+", ":", "*", "?">>

EDIFACT_SPECIAL_CHARS == <<"?", "'", "+", ":", "*">>

\* one turn of the loop body: value = value.replace(char, f"?{char}")
escape_step(v, char) == Replace(v, char, <<"?", char>>)

RECURSIVE escape_loop(_, _)
escape_loop(v, n) ==
    IF n > Len(EDIFACT_SPECIAL_CHARS) THEN v
    ELSE escape_loop(escape_step(v, EDIFACT_SPECIAL_CHARS[n]), n + 1)

escape_edifact(v) == IF v = <<>> THEN v ELSE escape_loop(v, 1)

(***************************************************************************)
(* Numbers: int(), decimal.Decimal                                         *)
(***************************************************************************)
RECURSIVE Pow10(_)
Pow10(n) == IF n = 0 THEN 1 ELSE 10 * Pow10(n - 1)

Abs(n) == IF n < 0 THEN -n ELSE n

Max(a, b) == IF a >= b THEN a ELSE b

Unsigned(s) == IF s # <<>> /\ Head(s) \in {"+", "-"} THEN Tail(s) ELSE s

Sign(s) == IF s # <<>> /\ Head(s) = "-" THEN -1 ELSE 1

\* int(s) of a str: an optional sign and decimal digits; anything else is a
\* ValueError.  (Surrounding blanks and "_" separators, which int() also takes,
\* occur in none of the documents below.)
IntOk(s) == AllDigits(Unsigned(s))

IntVal(s) == Sign(s) * DigitsVal(Unsigned(s), 0)

DotAt(s) == IF \E j \in 1..Len(s) : s[j] = "." THEN CHOOSE j \in 1..Len(s) : s[j] = "."
                                                                        /\ \A h \in 1..(j - 1) : s[h] # "."
            ELSE 0

IntPart(s) == IF DotAt(s) = 0 THEN s ELSE SubSeq(s, 1, DotAt(s) - 1)

FracPart(s) == IF DotAt(s) = 0 THEN <<>> ELSE SubSeq(s, DotAt(s) + 1, Len(s))

\* Decimal(s) of a str: sign, digits, optional fraction; anything else raises
\* decimal.InvalidOperation.  (Exponents, NaN and Infinity occur in none of the
\* documents below.)
DecOk(s) ==
    LET u == Unsigned(s) IN
    /\ IntPart(u) \o FracPart(u) # <<>>
    /\ \A j \in 1..Len(IntPart(u)) : IsDigit(IntPart(u)[j])
    /\ \A j \in 1..Len(FracPart(u)) : IsDigit(FracPart(u)[j])

DecVal(s) ==
    LET u == Unsigned(s) IN
    [coef |-> Sign(s) * DigitsVal(IntPart(u) \o FracPart(u), 0), scale |-> Len(FracPart(u))]

Zero2 == [coef |-> 0, scale |-> 2]       \* Decimal("0.00")

Rescale(d, sc) == d.coef * Pow10(sc - d.scale)      \* sc >= d.scale

DecAdd(a, b) ==
    LET sc == Max(a.scale, b.scale) IN [coef |-> Rescale(a, sc) + Rescale(b, sc), scale |-> sc]

DecMul(a, b) == [coef |-> a.coef * b.coef, scale |-> a.scale + b.scale]

DecMulInt(a, n) == [coef |-> a.coef * n, scale |-> a.scale]

\* d / 100: the quotient is exact; it is written here with two more fractional
\* digits, which is the same number (Python may drop trailing zeros of it).
DecDiv100(d) == [coef |-> d.coef, scale |-> d.scale + 2]

RoundHalfUp(a, p) == (a \div p) + (IF 2 * (a % p) >= p THEN 1 ELSE 0)

RoundHalfEven(a, p) ==
    (a \div p) + (IF 2 * (a % p) > p \/ (2 * (a % p) = p /\ (a \div p) % 2 = 1) THEN 1 ELSE 0)

\* d.quantize(Decimal("0.01"), rounding=mode)
Quantize2(d, mode) ==
    IF d.scale <= 2 THEN [coef |-> Rescale(d, 2), scale |-> 2]
    ELSE LET p == Pow10(d.scale - 2)
             a == Abs(d.coef)
             q == IF mode = "ROUND_HALF_UP" THEN RoundHalfUp(a, p) ELSE RoundHalfEven(a, p)
         IN [coef |-> (IF d.coef < 0 THEN -q ELSE q), scale |-> 2]

RECURSIVE ZeroPad(_, _)
ZeroPad(s, n) == IF Len(s) >= n THEN s ELSE ZeroPad(<<"0">> \o s, n)

\* str(d) of a Decimal with exponent <= 0
DecStr(d) ==
    LET a == Abs(d.coef)
        p == Pow10(d.scale)
    IN (IF d.coef < 0 THEN <<"-">> ELSE <<>>)
       \o NatStr(a \div p)
       \o (IF d.scale = 0 THEN <<>> ELSE <<".">> \o ZeroPad(NatStr(a % p), d.scale))

\* f"{d:.2f}" of a Decimal: rounds with the context's rounding, ROUND_HALF_EVEN
FormatF2(d) == DecStr(Quantize2(d, "ROUND_HALF_EVEN"))

(***************************************************************************)
(* Python values of the order document                                     *)
(***************************************************************************)
Absent == [t |-> "absent", s |-> <<>>, d |-> Zero2]

Str(s) == [t |-> "str", s |-> s, d |-> Zero2]

Dec(d) == [t |-> "dec", s |-> <<>>, d |-> d]

NoList == [t |-> "absent", l |-> <<>>]

List(l) == [t |-> "list", l |-> l]

\* key in dict
Has(x) == x.t # "absent"

\* bool(dict.get(key))
Truthy(x) ==
    \/ x.t = "str" /\ x.s # <<>>
    \/ x.t = "dec" /\ x.d.coef # 0
    \/ x.t = "list" /\ x.l # <<>>

\* str(x), f"{x}"
PyStr(x) == IF x.t = "dec" THEN DecStr(x.d) ELSE x.s

(***************************************************************************)
(* refactor2/order_edi.py: SegmentGenerator, with the default EdifactConfig *)
(***************************************************************************)
UNA_SEGMENT == <<"U", "N", "A", ":", "+", ".", "?", " ", "'">>

una == UNA_SEGMENT

unh(message_ref) == <<"U", "N", "H", "+">> \o message_ref \o <<"+", "O", "R", "D", "E", "R", "S", ":", "D", ":", "9", "6", "A", ":", "U", "N", "'">>

bgm(order_number) == <<"B", "G", "M", "+", "2", "2", "0", "+">> \o order_number \o <<"+", "9", "'">>

dtm(qualifier, date) == <<"D", "T", "M", "+">> \o qualifier \o <<":">> \o date \o <<":", "1", "0", "2", "'">>

cux(currency) == <<"C", "U", "X", "+", "2", ":">> \o currency \o <<":", "9", "'">>

\* one list element; a truthy name makes it hold two segments
nad(qualifier, party_id, name) ==
    <<"N", "A", "D", "+">> \o qualifier \o <<"+">> \o party_id \o <<":", ":", "9", "1", "'">>
    \o (IF Truthy(name) THEN <<"\n", "C", "T", "A", "+", "I", "C", "+">> \o escape_edifact(name.s) \o <<"'">> ELSE <<>>)

com(contact, contact_type) == <<"C", "O", "M", "+">> \o escape_edifact(contact) \o <<":">> \o contact_type \o <<"'">>

lin(line_num, product_code) == <<"L", "I", "N", "+">> \o IntStr(line_num) \o <<"+", "+">> \o product_code \o <<":", "E", "N", "'">>

imd(description) == <<"I", "M", "D", "+", "F", "+", "+", ":", ":", ":">> \o escape_edifact(description) \o <<"'">>

qty(quantity) == <<"Q", "T", "Y", "+", "2", "1", ":">> \o IntStr(quantity) \o <<":", "E", "A", "'">>

pri(price) == <<"P", "R", "I", "+", "A", "A", "A", ":">> \o DecStr(Quantize2(price, "ROUND_HALF_UP")) \o <<":", "E", "A", "'">>

moa(qualifier, amount) == <<"M", "O", "A", "+">> \o qualifier \o <<":">> \o DecStr(Quantize2(amount, "ROUND_HALF_UP")) \o <<"'">>

tax(rate) == <<"T", "A", "X", "+", "7", "+", "V", "A", "T", "+", "+", "+", ":", ":", ":">> \o DecStr(rate) \o <<"%", "'">>

loc(qualifier, location) == <<"L", "O", "C", "+">> \o qualifier \o <<"+">> \o location \o <<":", "9", "2", "'">>

pai(terms) == <<"P", "A", "I", "+">> \o terms \o <<":", "3", "'">>

unt(count, message_ref) == <<"U", "N", "T", "+">> \o IntStr(count) \o <<"+">> \o message_ref \o <<"'">>

(***************************************************************************)
(* Exceptions and what the caller receives                                 *)
(***************************************************************************)
\* field, index: the document field and the 1-based item position the message
\* text identifies ("" and 0 when it identifies none)
Error(type, code, msg) == [type |-> type, code |-> code, msg |-> msg, field |-> "", index |-> 0]

NoError == Error("", "", "")

Pending == [kind |-> "none", text |-> <<>>, error |-> NoError]

Returned(text) == [kind |-> "returned", text |-> text, error |-> NoError]

Raised(e) == [kind |-> "raised", text |-> <<>>, error |-> e]

KeyError == Error("KeyError", "", "")

InvalidOperation == Error("decimal.InvalidOperation", "", "[<class 'decimal.ConversionSyntax'>]")

(***************************************************************************)
(* refactor2/order_edi.py: validation                                      *)
(***************************************************************************)
DaysIn(y, m) ==
    IF m \in {4, 6, 9, 11} THEN 30
    ELSE IF m = 2 THEN (IF (y % 4 = 0 /\ y % 100 # 0) \/ y % 400 = 0 THEN 29 ELSE 28)
    ELSE 31

\* validate_date(date_str, "102"): datetime.strptime(date_str, "%Y%m%d") succeeds.
\* On the eight-character strings of the documents below that is: all digits,
\* year >= 1, month 1..12, day within the month.
validate_date(date_str) ==
    /\ Len(date_str) = 8
    /\ AllDigits(date_str)
    /\ LET y == DigitsVal(SubSeq(date_str, 1, 4), 0)
           m == DigitsVal(SubSeq(date_str, 5, 6), 0)
           d == DigitsVal(SubSeq(date_str, 7, 8), 0)
       IN y >= 1 /\ m \in 1..12 /\ d >= 1 /\ d <= DaysIn(y, m)

\* the exception raised while building converted_item from item, "" when none;
\* the dict display evaluates product_code, description, quantity, price in order
r2_item_fault(item) ==
    IF ~Has(item.product_code) \/ ~Has(item.description) \/ ~Has(item.quantity) THEN "KeyError"
    ELSE IF ~IntOk(PyStr(item.quantity)) THEN "ValueError"
    ELSE IF ~Has(item.price) THEN "KeyError"
    ELSE IF ~DecOk(PyStr(item.price)) THEN "InvalidOperation"
    ELSE ""

r2_converted_item(item) ==
    [product_code |-> item.product_code,
     description |-> item.description,
     quantity |-> Str(IntStr(IntVal(PyStr(item.quantity)))),
     price |-> Dec(DecVal(PyStr(item.price)))]

r2_first_fault(items) ==
    IF \E j \in 1..Len(items) : r2_item_fault(items[j]) # ""
    THEN CHOOSE j \in 1..Len(items) : /\ r2_item_fault(items[j]) # ""
                                      /\ \A h \in 1..(j - 1) : r2_item_fault(items[h]) = ""
    ELSE 0

\* the exception a fault leaves validate_order_data as: ValueError and TypeError
\* are caught and re-raised as VALID_005, the others pass through
r2_fault_error(fault) ==
    IF fault = "ValueError"
    THEN Error("EdifactGenerationError", "VALID_005", "Invalid numeric format: invalid literal for int() with base 10")
    ELSE IF fault = "KeyError" THEN KeyError
    ELSE InvalidOperation

r2_required_fields_present(doc) ==
    /\ Has(doc.message_ref) /\ Has(doc.order_number) /\ Has(doc.order_date)
    /\ Has(doc.parties) /\ Has(doc.items)

\* validate_order_data(data, config): [ok, data, error]; data is the dict after
\* the call (items and tax_rate are assigned in place)
r2_validate_order_data(doc) ==
    IF ~r2_required_fields_present(doc)
    THEN [ok |-> FALSE, data |-> doc,
          error |-> Error("EdifactGenerationError", "VALID_001", "Missing required fields")]
    ELSE IF doc.items.l = <<>>
    THEN [ok |-> FALSE, data |-> doc,
          error |-> Error("EdifactGenerationError", "VALID_002", "At least one item is required")]
    ELSE IF ~validate_date(doc.order_date.s)
    THEN [ok |-> FALSE, data |-> doc,
          error |-> Error("EdifactGenerationError", "VALID_003", "Invalid order_date format for 102")]
    ELSE IF Truthy(doc.delivery_date) /\ ~validate_date(doc.delivery_date.s)
    THEN [ok |-> FALSE, data |-> doc,
          error |-> Error("EdifactGenerationError", "VALID_004", "Invalid delivery_date format for 102")]
    ELSE IF r2_first_fault(doc.items.l) # 0
    THEN [ok |-> FALSE, data |-> doc,
          error |-> r2_fault_error(r2_item_fault(doc.items.l[r2_first_fault(doc.items.l)]))]
    ELSE LET converted == [doc EXCEPT !.items = List([j \in 1..Len(doc.items.l) |->
                                                        r2_converted_item(doc.items.l[j])])]
         IN IF ~Truthy(doc.tax_rate) THEN [ok |-> TRUE, data |-> converted, error |-> NoError]
            ELSE IF ~DecOk(PyStr(doc.tax_rate))
            THEN [ok |-> FALSE, data |-> converted, error |-> InvalidOperation]
            ELSE [ok |-> TRUE,
                  data |-> [converted EXCEPT !.tax_rate = Dec(DecVal(PyStr(doc.tax_rate)))],
                  error |-> NoError]

(***************************************************************************)
(* The order documents the generators are called with                      *)
(***************************************************************************)
SeqsUpTo(S, n) == UNION {[1..m -> S] : m \in 0..n}

Party(q, id, name, address, contact) ==
    [qualifier |-> q, id |-> id, name |-> name, address |-> address, contact |-> contact]

Item(code, description, quantity, price) ==
    [product_code |-> code, description |-> description, quantity |-> quantity, price |-> price]

BaseParty == Party(Str(<<"B", "Y">>), Str(<<"1", "2">>), Absent, Absent, Absent)

BaseItem == Item(Str(<<"P", "1">>), Str(<<"W">>), Str(<<"1", "0">>), Str(<<"2", "5", ".", "5", "0">>))

BaseDoc ==
    [message_ref |-> Str(<<"M", "1">>), order_number |-> Str(<<"A", "1">>), order_date |-> Str(<<"2", "0", "2", "5", "0", "5", "0", "9">>),
     parties |-> List(<<BaseParty>>), items |-> List(<<BaseItem>>),
     delivery_date |-> Absent, currency |-> Absent, delivery_location |-> Absent,
     payment_terms |-> Absent, tax_rate |-> Absent, special_instructions |-> Absent]

\* every combination of the optional fields
OptionDocs ==
    {[BaseDoc EXCEPT !.delivery_date = dd, !.currency = cu, !.tax_rate = tr,
                     !.delivery_location = dl, !.payment_terms = pt,
                     !.special_instructions = si,
                     !.parties = List(<<Party(Str(<<"B", "Y">>), Str(<<"1", "2">>), nm, ad, ct)>>)] :
        dd \in {Absent, Str(<<"2", "0", "2", "5", "0", "5", "1", "5">>)}, cu \in {Absent, Str(<<"U", "S", "D">>)},
        tr \in {Absent, Str(<<"2", "0", ".", "0">>)}, dl \in {Absent, Str(<<"W", "1">>)},
        pt \in {Absent, Str(<<"N", "E", "T", "3", "0">>)}, si \in {Absent, Str(<<"9", "-", "5">>)},
        nm \in {Absent, Str(<<"B", "o">>)}, ad \in {Absent, Str(<<"P", "a", "r", "k">>)}, ct \in {Absent, Str(<<"5", "5", "5">>)}}

PartyPool ==
    {BaseParty,
     Party(Str(<<"S", "U">>), Str(<<"3", "4">>), Str(<<"B", "o">>), Absent, Absent),
     Party(Str(<<"D", "P">>), Str(<<"5", "6">>), Absent, Str(<<"a", "?", "b">>), Str(<<"+", "1">>)),
     Party(Str(<<"S", "U">>), Str(<<"7", ":", "8">>), Str(<<"O", "'", "N">>), Absent, Absent),
     Party(Absent, Str(<<"9", "0">>), Absent, Absent, Absent),
     Party(Str(<<"S", "U">>), Absent, Absent, Absent, Absent)}

PartyDocs == {[BaseDoc EXCEPT !.parties = List(ps)] : ps \in SeqsUpTo(PartyPool, MaxParties)}

ItemPool ==
    {BaseItem,
     Item(Str(<<"P", "2">>), Str(<<"a", "+", "b">>), Str(<<"1">>), Str(<<"0", ".", "1", "2", "5">>)),
     Item(Str(<<"P", "3">>), Str(<<"C">>), Str(<<"3">>), Str(<<"1", ".", "2", "5">>)),
     Item(Str(<<"X", "'", "Y">>), Str(<<"D">>), Str(<<"2">>), Str(<<"0", ".", "5">>)),
     Item(Str(<<"P", "5">>), Str(<<"E">>), Str(<<"a", "b", "c">>), Str(<<"1", ".", "0", "0">>)),
     Item(Str(<<"P", "6">>), Str(<<"F">>), Str(<<"1">>), Str(<<"a", "b", "c">>)),
     Item(Str(<<"P", "7">>), Str(<<"G">>), Str(<<"1">>), Absent)}

TaxPool == {Absent, Str(<<"1", "0">>), Str(<<"7", ".", "5">>), Str(<<"a", "b", "c">>), Str(<<"0">>)}

ItemDocs ==
    {[BaseDoc EXCEPT !.items = List(its), !.tax_rate = tr] :
        its \in SeqsUpTo(ItemPool, MaxItems), tr \in TaxPool}

HeaderDocs ==
    {[BaseDoc EXCEPT !.order_number = v] : v \in {Absent, Str(<<>>), Str(<<"A", "'", "B">>)}}
    \cup {[BaseDoc EXCEPT !.message_ref = v] : v \in {Absent, Str(<<>>), Str(<<"M", "+", "1">>)}}
    \cup {[BaseDoc EXCEPT !.order_date = v] : v \in {Absent, Str(<<"2", "0", "2", "5", "1", "3", "0", "1">>), Str(<<"2", "0", "2", "4", "0", "2", "2", "9">>)}}
    \cup {[BaseDoc EXCEPT !.delivery_date = v] : v \in {Str(<<>>), Str(<<"2", "0", "2", "5", "0", "2", "3", "0">>)}}
    \cup {[BaseDoc EXCEPT !.currency = Str(<<"U", ":", "S">>)],
          [BaseDoc EXCEPT !.delivery_location = Str(<<"W", "'", "1">>)],
          [BaseDoc EXCEPT !.payment_terms = Str(<<"N", "+", "3", "0">>)],
          [BaseDoc EXCEPT !.special_instructions = Str(<<"a", "'", "b">>)],
          [BaseDoc EXCEPT !.parties = NoList],
          [BaseDoc EXCEPT !.items = NoList]}

Docs == OptionDocs \cup PartyDocs \cup ItemDocs \cup HeaderDocs

Variants == {"export", "r1", "r2"}

NoFile == [written |-> FALSE, text |-> <<>>]

Init ==
    /\ variant \in Variants
    /\ input \in Docs
    /\ data = input
    /\ output_file = FALSE
    /\ segments = <<>>
    /\ total_amount = Zero2
    /\ segment_count = 0
    /\ i = 0
    /\ pc = "start"
    /\ message = <<>>
    /\ result = Pending
    /\ file = NoFile
    /\ value = <<>>
    /\ original = <<>>
    /\ k = 0

(***************************************************************************)
(* refactor2/order_edi.py: generate_edifact_orders                         *)
(***************************************************************************)
\* the generator stops with exception e
Raise(e) ==
    /\ result' = Raised(e)
    /\ pc' = "done"

\* lines 188-192
R2Validate ==
    /\ variant = "r2" /\ pc = "start"
    /\ LET v == r2_validate_order_data(data) IN
       /\ data' = v.data
       /\ IF v.ok THEN pc' = "header" /\ result' = result
                  ELSE Raise(v.error)
    /\ UNCHANGED <<variant, input, output_file, segments, total_amount, segment_count, i,
                   message, file, value, original, k>>

\* lines 194-207
R2Header ==
    /\ variant = "r2" /\ pc = "header"
    /\ segments' = <<una, unh(data.message_ref.s), bgm(data.order_number.s),
                     dtm(<<"1", "3", "7">>, data.order_date.s)>>
                   \o (IF Truthy(data.delivery_date) THEN <<dtm(<<"2">>, data.delivery_date.s)>> ELSE <<>>)
                   \o (IF Truthy(data.currency) THEN <<cux(data.currency.s)>> ELSE <<>>)
    /\ i' = 1
    /\ pc' = IF data.parties.l = <<>> THEN "items" ELSE "parties"
    /\ UNCHANGED <<variant, input, data, output_file, total_amount, segment_count,
                   message, result, file, value, original, k>>

\* lines 210-219, one turn of the loop
R2Party ==
    /\ variant = "r2" /\ pc = "parties"
    /\ LET party == data.parties.l[i] IN
       IF ~Has(party.qualifier) \/ ~Has(party.id)
       THEN Raise(KeyError) /\ UNCHANGED <<segments, i>>
       ELSE /\ segments' = segments
                 \o <<nad(party.qualifier.s, party.id.s, party.name)>>
                 \o (IF Truthy(party.address) THEN <<com(party.address.s, <<"A", "D">>)>> ELSE <<>>)
                 \o (IF Truthy(party.contact) THEN <<com(party.contact.s, <<"T", "E">>)>> ELSE <<>>)
            /\ i' = IF i = Len(data.parties.l) THEN 1 ELSE i + 1
            /\ pc' = IF i = Len(data.parties.l) THEN "items" ELSE "parties"
            /\ result' = result
    /\ UNCHANGED <<variant, input, data, output_file, total_amount, segment_count,
                   message, file, value, original, k>>

\* lines 223-234, one turn of the loop
R2Item ==
    /\ variant = "r2" /\ pc = "items"
    /\ LET item == data.items.l[i]
           quantity == IntVal(item.quantity.s)
           price == item.price.d
           line_total == DecMulInt(price, quantity)
       IN /\ segments' = segments \o <<lin(i, item.product_code.s), imd(item.description.s),
                                       qty(quantity), pri(price)>>
          /\ total_amount' = DecAdd(total_amount, line_total)
    /\ i' = i + 1
    /\ pc' = IF i = Len(data.items.l) THEN "tax" ELSE "items"
    /\ UNCHANGED <<variant, input, data, output_file, segment_count,
                   message, result, file, value, original, k>>

\* lines 237-246
R2Tax ==
    /\ variant = "r2" /\ pc = "tax"
    /\ IF Truthy(data.tax_rate)
       THEN LET tax_rate == data.tax_rate.d
                tax_amount == Quantize2(DecDiv100(DecMul(total_amount, tax_rate)), "ROUND_HALF_UP")
            IN /\ segments' = segments \o <<tax(tax_rate), moa(<<"1", "2", "4">>, tax_amount)>>
               /\ total_amount' = DecAdd(total_amount, tax_amount)
       ELSE UNCHANGED <<segments, total_amount>>
    /\ pc' = "location"
    /\ UNCHANGED <<variant, input, data, output_file, segment_count, i,
                   message, result, file, value, original, k>>

\* lines 249-254
R2Location ==
    /\ variant = "r2" /\ pc = "location"
    /\ segments' = segments
         \o (IF Truthy(data.delivery_location) THEN <<loc(<<"1", "1">>, data.delivery_location.s)>> ELSE <<>>)
         \o (IF Truthy(data.payment_terms) THEN <<pai(data.payment_terms.s)>> ELSE <<>>)
    /\ pc' = "totals"
    /\ UNCHANGED <<variant, input, data, output_file, total_amount, segment_count, i,
                   message, result, file, value, original, k>>

\* lines 257-262
R2Totals ==
    /\ variant = "r2" /\ pc = "totals"
    /\ LET with_moa == segments \o <<moa(<<"7", "9">>, total_amount)>>
           with_unt == with_moa \o <<unt(Len(with_moa), data.message_ref.s)>>
       IN /\ segment_count' = Len(with_moa)
          /\ segments' = with_unt
          /\ message' = Join(<<"\n">>, with_unt)
    /\ pc' = "write"
    /\ UNCHANGED <<variant, input, data, output_file, total_amount, i,
                   result, file, value, original, k>>

\* lines 264-273; whether a sink was asked for is the caller's choice, whether
\* open/write succeeds is the file system's
R2Write ==
    /\ variant = "r2" /\ pc = "write"
    /\ \E requested \in BOOLEAN, io_ok \in BOOLEAN :
        /\ output_file' = requested
        /\ IF ~requested THEN file' = file /\ result' = Returned(message)
           ELSE IF io_ok THEN file' = [written |-> TRUE, text |-> message]
                              /\ result' = Returned(message)
           ELSE file' = file
                /\ result' = Raised(Error("EdifactGenerationError", "IO_001", "File write failed"))
    /\ pc' = "done"
    /\ UNCHANGED <<variant, input, data, segments, total_amount, segment_count, i,
                   message, value, original, k>>

(***************************************************************************)
(* refactor1/order.py                                                      *)
(***************************************************************************)
ValueErrorInt == Error("ValueError", "", "invalid literal for int() with base 10")

\* validate_order_data(data): the exception it raises, NoError when it returns
r1_validate_order_data(doc) ==
    IF ~(/\ Has(doc.message_ref) /\ Has(doc.order_number) /\ Has(doc.order_date)
         /\ Has(doc.parties) /\ Has(doc.items))
    THEN Error("EdifactGenerationError", "", "Missing required fields.")
    ELSE IF doc.items.l = <<>>
    THEN Error("EdifactGenerationError", "", "At least one item is required.")
    ELSE NoError

r1_format_party(party) ==
    <<<<"N", "A", "D", "+">> \o party.qualifier.s \o <<"+">> \o party.id.s \o <<":", ":", "9", "1", "'">>>>
    \o (IF Truthy(party.name) THEN <<<<"C", "T", "A", "+", "I", "C", "+">> \o party.name.s \o <<"'">>>> ELSE <<>>)
    \o (IF Truthy(party.address) THEN <<<<"C", "O", "M", "+">> \o party.address.s \o <<":", "A", "D", "'">>>> ELSE <<>>)

\* the exception format_order_item raises on item, "" when none: quantity and
\* price are read and converted first, then product_code and description
r1_item_fault(item) ==
    IF ~Has(item.quantity) THEN "KeyError"
    ELSE IF ~IntOk(item.quantity.s) THEN "ValueError"
    ELSE IF ~Has(item.price) THEN "KeyError"
    ELSE IF ~DecOk(item.price.s) THEN "InvalidOperation"
    ELSE IF ~Has(item.product_code) \/ ~Has(item.description) THEN "KeyError"
    ELSE ""

FaultError(fault) ==
    IF fault = "ValueError" THEN ValueErrorInt
    ELSE IF fault = "KeyError" THEN KeyError
    ELSE InvalidOperation

r1_format_order_item(index, item) ==
    LET quantity == IntVal(item.quantity.s)
        price == DecVal(item.price.s)
    IN [segments |-> <<<<"L", "I", "N", "+">> \o IntStr(index) \o <<"+", "+">> \o item.product_code.s \o <<":", "E", "N", "'">>,
                       <<"I", "M", "D", "+", "F", "+", "+", ":", ":", ":">> \o item.description.s \o <<"'">>,
                       <<"Q", "T", "Y", "+", "2", "1", ":">> \o IntStr(quantity) \o <<":", "E", "A", "'">>,
                       <<"P", "R", "I", "+", "A", "A", "A", ":">> \o FormatF2(price) \o <<":", "E", "A", "'">>>>,
        line_total |-> DecMulInt(price, quantity)]

\* lines 98-102
R1Validate ==
    /\ variant = "r1" /\ pc = "start"
    /\ IF r1_validate_order_data(data) = NoError THEN pc' = "header" /\ result' = result
       ELSE Raise(r1_validate_order_data(data))
    /\ UNCHANGED <<variant, input, data, output_file, segments, total_amount, segment_count, i,
                   message, file, value, original, k>>

\* lines 104-114
R1Header ==
    /\ variant = "r1" /\ pc = "header"
    /\ segments' = <<UNA_SEGMENT,
                     <<"U", "N", "H", "+">> \o data.message_ref.s \o <<"+", "O", "R", "D", "E", "R", "S", ":", "D", ":", "9", "6", "A", ":", "U", "N", "'">>,
                     <<"B", "G", "M", "+", "2", "2", "0", "+">> \o data.order_number.s \o <<"+", "9", "'">>,
                     <<"D", "T", "M", "+", "1", "3", "7", ":">> \o data.order_date.s \o <<":", "1", "0", "2", "'">>>>
           \o (IF Truthy(data.delivery_date)
               THEN <<<<"D", "T", "M", "+", "2", ":">> \o data.delivery_date.s \o <<":", "1", "0", "2", "'">>>> ELSE <<>>)
           \o (IF Truthy(data.currency) THEN <<<<"C", "U", "X", "+", "2", ":">> \o data.currency.s \o <<":", "9", "'">>>> ELSE <<>>)
    /\ i' = 1
    /\ pc' = IF data.parties.l = <<>> THEN "items" ELSE "parties"
    /\ UNCHANGED <<variant, input, data, output_file, total_amount, segment_count,
                   message, result, file, value, original, k>>

\* lines 117-118, one turn of the loop
R1Party ==
    /\ variant = "r1" /\ pc = "parties"
    /\ LET party == data.parties.l[i] IN
       IF ~Has(party.qualifier) \/ ~Has(party.id)
       THEN Raise(KeyError) /\ UNCHANGED <<segments, i>>
       ELSE /\ segments' = segments \o r1_format_party(party)
            /\ i' = IF i = Len(data.parties.l) THEN 1 ELSE i + 1
            /\ pc' = IF i = Len(data.parties.l) THEN "items" ELSE "parties"
            /\ result' = result
    /\ UNCHANGED <<variant, input, data, output_file, total_amount, segment_count,
                   message, file, value, original, k>>

\* lines 122-125, one turn of the loop
R1Item ==
    /\ variant = "r1" /\ pc = "items"
    /\ LET item == data.items.l[i] IN
       IF r1_item_fault(item) # ""
       THEN Raise(FaultError(r1_item_fault(item))) /\ UNCHANGED <<segments, total_amount, i>>
       ELSE /\ segments' = segments \o r1_format_order_item(i, item).segments
            /\ total_amount' = DecAdd(total_amount, r1_format_order_item(i, item).line_total)
            /\ i' = i + 1
            /\ pc' = IF i = Len(data.items.l) THEN "tax" ELSE "items"
            /\ result' = result
    /\ UNCHANGED <<variant, input, data, output_file, segment_count,
                   message, file, value, original, k>>

\* lines 128-134
R1Tax ==
    /\ variant = "r1" /\ pc = "tax"
    /\ IF ~Truthy(data.tax_rate)
       THEN pc' = "totals" /\ UNCHANGED <<segments, total_amount, result>>
       ELSE IF ~DecOk(data.tax_rate.s)
       THEN Raise(InvalidOperation) /\ UNCHANGED <<segments, total_amount>>
       ELSE LET tax_amount == Quantize2(DecDiv100(DecMul(total_amount, DecVal(data.tax_rate.s))),
                                        "ROUND_HALF_EVEN")
            IN /\ segments' = segments
                    \o <<<<"T", "A", "X", "+", "7", "+", "V", "A", "T", "+", "+", "+", ":", ":", ":">> \o data.tax_rate.s \o <<"%", "'">>,
                         <<"M", "O", "A", "+", "1", "2", "4", ":">> \o FormatF2(tax_amount) \o <<":", "'">>>>
               /\ total_amount' = DecAdd(total_amount, tax_amount)
               /\ pc' = "totals"
               /\ result' = result
    /\ UNCHANGED <<variant, input, data, output_file, segment_count, i,
                   message, file, value, original, k>>

\* lines 136-142
R1Totals ==
    /\ variant = "r1" /\ pc = "totals"
    /\ LET with_moa == segments \o <<<<"M", "O", "A", "+", "7", "9", ":">> \o FormatF2(total_amount) \o <<":", "'">>>>
       IN /\ segment_count' = Len(with_moa) - 1
          /\ segments' = with_moa \o <<<<"U", "N", "T", "+">> \o IntStr(Len(with_moa) - 1) \o <<"+">>
                                       \o data.message_ref.s \o <<"'">>>>
          /\ message' = Join(<<"\n">>, segments')
    /\ pc' = "write"
    /\ UNCHANGED <<variant, input, data, output_file, total_amount, i,
                   result, file, value, original, k>>

\* lines 144-153
R1Write ==
    /\ variant = "r1" /\ pc = "write"
    /\ \E requested \in BOOLEAN, io_ok \in BOOLEAN :
        /\ output_file' = requested
        /\ IF ~requested THEN file' = file /\ result' = Returned(message)
           ELSE IF io_ok THEN file' = [written |-> TRUE, text |-> message]
                              /\ result' = Returned(message)
           ELSE file' = file
                /\ result' = Raised(Error("EdifactGenerationError", "", "File write failed."))
    /\ pc' = "done"
    /\ UNCHANGED <<variant, input, data, segments, total_amount, segment_count, i,
                   message, value, original, k>>

(***************************************************************************)
(* order_export.py                                                         *)
(***************************************************************************)
\* validate_data(data): the first required field that data.get() finds missing
\* or empty, "" when validation passes
validate_data(doc) ==
    IF ~Truthy(doc.message_ref) THEN "message_ref"
    ELSE IF ~Truthy(doc.order_number) THEN "order_number"
    ELSE IF ~Truthy(doc.order_date) THEN "order_date"
    ELSE IF ~Truthy(doc.parties) THEN "parties"
    ELSE IF ~Truthy(doc.items) THEN "items"
    ELSE ""

\* format_party(party): "" for a party without qualifier or id
format_party(party) ==
    IF ~Has(party.qualifier) \/ ~Has(party.id) THEN <<>>
    ELSE <<"N", "A", "D", "+">> \o party.qualifier.s \o <<"+">> \o party.id.s \o <<":", ":", "9", "1", "'">>

\* filter(None, (format_party(p) for p in parties))
RECURSIVE formatted_parties(_)
formatted_parties(parties) ==
    IF parties = <<>> THEN <<>>
    ELSE (IF format_party(Head(parties)) = <<>> THEN <<>> ELSE <<format_party(Head(parties))>>)
         \o formatted_parties(Tail(parties))

item_has_required_fields(item) ==
    Has(item.product_code) /\ Has(item.description) /\ Has(item.quantity) /\ Has(item.price)

\* what "formatted_item, line_total = format_item(index, item)" raises, "" when
\* it succeeds: format_item returns a bare [] for an item with a missing field,
\* which cannot be unpacked into two names
format_item_fault(item) ==
    IF ~item_has_required_fields(item) THEN "Unpack"
    ELSE IF ~IntOk(item.quantity.s) THEN "ValueError"
    ELSE IF ~DecOk(item.price.s) THEN "InvalidOperation"
    ELSE ""

format_item(index, item) ==
    LET quantity == IntVal(item.quantity.s)
        price == DecVal(item.price.s)
    IN [segments |-> <<<<"L", "I", "N", "+">> \o IntStr(index) \o <<"+", "+">> \o item.product_code.s \o <<":", "E", "N", "'">>,
                       <<"I", "M", "D", "+", "F", "+", "+", ":", ":", ":">> \o item.description.s \o <<"'">>,
                       <<"Q", "T", "Y", "+", "2", "1", ":">> \o IntStr(quantity) \o <<":", "E", "A", "'">>,
                       <<"P", "R", "I", "+", "A", "A", "A", ":">> \o DecStr(price) \o <<":", "E", "A", "'">>>>,
        line_total |-> DecMulInt(price, quantity)]

\* lines 55-58: a validation failure is swallowed and "" returned
ExportValidate ==
    /\ variant = "export" /\ pc = "start"
    /\ IF validate_data(data) = "" THEN pc' = "header" /\ result' = result
       ELSE pc' = "done" /\ result' = Returned(<<>>)
    /\ UNCHANGED <<variant, input, data, output_file, segments, total_amount, segment_count, i,
                   message, file, value, original, k>>

\* lines 62-73
ExportHeader ==
    /\ variant = "export" /\ pc = "header"
    /\ segments' = <<UNA_SEGMENT,
                     <<"U", "N", "H", "+">> \o data.message_ref.s \o <<"+", "O", "R", "D", "E", "R", "S", ":", "D", ":", "9", "6", "A", ":", "U", "N", "'">>,
                     <<"B", "G", "M", "+", "2", "2", "0", "+">> \o data.order_number.s \o <<"+", "9", "'">>,
                     <<"D", "T", "M", "+", "1", "3", "7", ":">> \o data.order_date.s \o <<":", "1", "0", "2", "'">>>>
           \o (IF Has(data.delivery_date)
               THEN <<<<"D", "T", "M", "+", "2", ":">> \o data.delivery_date.s \o <<":", "1", "0", "2", "'">>>> ELSE <<>>)
           \o formatted_parties(data.parties.l)
    /\ i' = 1
    /\ pc' = "items"
    /\ UNCHANGED <<variant, input, data, output_file, total_amount, segment_count,
                   message, result, file, value, original, k>>

\* lines 78-82, one turn of the loop
ExportItem ==
    /\ variant = "export" /\ pc = "items"
    /\ LET item == data.items.l[i]
           fault == format_item_fault(item)
       IN IF fault # ""
          THEN /\ Raise(IF fault = "Unpack"
                        THEN Error("ValueError", "", "not enough values to unpack (expected 2, got 0)")
                        ELSE FaultError(fault))
               /\ UNCHANGED <<segments, total_amount, i>>
          ELSE /\ segments' = segments \o format_item(i, item).segments
               /\ total_amount' = DecAdd(total_amount, format_item(i, item).line_total)
               /\ i' = i + 1
               /\ pc' = IF i = Len(data.items.l) THEN "totals" ELSE "items"
               /\ result' = result
    /\ UNCHANGED <<variant, input, data, output_file, segment_count,
                   message, file, value, original, k>>

\* lines 85-94
ExportTotals ==
    /\ variant = "export" /\ pc = "totals"
    /\ LET edifact == segments
                      \o <<<<"M", "O", "A", "+", "7", "9", ":">> \o FormatF2(total_amount) \o <<":", "'">>>>
                      \o (IF Has(data.special_instructions)
                          THEN <<<<"F", "T", "X", "+", "A", "A", "I", "+", "+", "+">> \o data.special_instructions.s \o <<"'">>>> ELSE <<>>)
       IN /\ segment_count' = Len(edifact) - 1
          /\ segments' = edifact \o <<<<"U", "N", "T", "+">> \o IntStr(Len(edifact) - 1) \o <<"+">>
                                      \o data.message_ref.s \o <<"'">>>>
          /\ message' = Join(<<"\n">>, segments')
    /\ pc' = "write"
    /\ UNCHANGED <<variant, input, data, output_file, total_amount, i,
                   result, file, value, original, k>>

\* lines 96-104: the file is always written; a failed write returns ""
ExportWrite ==
    /\ variant = "export" /\ pc = "write"
    /\ \E io_ok \in BOOLEAN :
        IF io_ok THEN file' = [written |-> TRUE, text |-> message] /\ result' = Returned(message)
        ELSE file' = file /\ result' = Returned(<<>>)
    /\ output_file' = TRUE
    /\ pc' = "done"
    /\ UNCHANGED <<variant, input, data, segments, total_amount, segment_count, i,
                   message, value, original, k>>

Next ==
    \/ R2Validate \/ R2Header \/ R2Party \/ R2Item \/ R2Tax \/ R2Location \/ R2Totals \/ R2Write
    \/ R1Validate \/ R1Header \/ R1Party \/ R1Item \/ R1Tax \/ R1Totals \/ R1Write
    \/ ExportValidate \/ ExportHeader \/ ExportItem \/ ExportTotals \/ ExportWrite

Spec == Init /\ [][Next]_vars

(***************************************************************************)
(* escape_edifact on its own, one str.replace at a time                    *)
(***************************************************************************)
EscapeAlphabet == {"a", "?", "'", "+", ":", "*"}

InitEscape ==
    /\ original \in SeqsUpTo(EscapeAlphabet, MaxLen)
    /\ value = original
    /\ k = 1
    /\ pc = "escape"
    /\ variant = "r2"
    /\ input = BaseDoc
    /\ data = BaseDoc
    /\ output_file = FALSE
    /\ segments = <<>>
    /\ total_amount = Zero2
    /\ segment_count = 0
    /\ i = 0
    /\ message = <<>>
    /\ result = Pending
    /\ file = NoFile

\* lines 61-62: if not value: return value
EscapeEmpty ==
    /\ pc = "escape" /\ value = <<>> /\ k = 1
    /\ pc' = "escaped"
    /\ UNCHANGED <<variant, input, data, output_file, segments, total_amount, segment_count,
                   i, message, result, file, value, original, k>>

\* lines 63-65: one turn of the loop over EDIFACT_SPECIAL_CHARS
EscapeTurn ==
    /\ pc = "escape" /\ original # <<>>
    /\ value' = escape_step(value, EDIFACT_SPECIAL_CHARS[k])
    /\ k' = k + 1
    /\ pc' = IF k = Len(EDIFACT_SPECIAL_CHARS) THEN "escaped" ELSE "escape"
    /\ UNCHANGED <<variant, input, data, output_file, segments, total_amount, segment_count,
                   i, message, result, file, original>>

NextEscape == EscapeEmpty \/ EscapeTurn

SpecEscape == InitEscape /\ [][NextEscape]_vars

(***************************************************************************)
(* Reading a message back: EDIFACT syntax as UNA:+.? ' declares it         *)
(***************************************************************************)
\* the characters the release character ? must precede inside a data value
Delimiters == {"?", "'", "+", ":", "*"}

\* s with one ? put before each delimiter and nothing else changed
RECURSIVE Released(_)
Released(s) ==
    IF s = <<>> THEN <<>>
    ELSE (IF Head(s) \in Delimiters THEN <<"?", Head(s)>> ELSE <<Head(s)>>) \o Released(Tail(s))

\* s[j] is released: an odd number of ? stands right before it
IsReleased(s, j) ==
    LET run == CHOOSE r \in 0..(j - 1) : /\ \A h \in 1..r : s[j - h] = "?"
                                        /\ (r = j - 1 \/ s[j - r - 1] # "?")
    IN run % 2 = 1

\* the positions of the segment terminators of s
Terminators(s) == {j \in 1..Len(s) : s[j] = "'" /\ ~IsReleased(s, j)}

\* the n-th smallest member of the set of positions T
Nth(T, n) == CHOOSE j \in T : Cardinality({h \in T : h < j}) = n - 1

\* s without the line break it starts with, if any
SkipBreak(s) == IF s # <<>> /\ Head(s) = "\n" THEN Tail(s) ELSE s

\* the segments of s: cut at each ' that no ? releases; the line break between
\* two segments carries no meaning, text after the last ' is a segment too
SplitSegments(s) ==
    LET T == Terminators(s)
        n == Cardinality(T)
        from(g) == IF g = 1 THEN 1 ELSE Nth(T, g - 1) + 1
        rest == SkipBreak(SubSeq(s, from(n + 1), Len(s)))
    IN [g \in 1..n |-> SkipBreak(SubSeq(s, from(g), Nth(T, g) - 1))]
       \o (IF rest = <<>> THEN <<>> ELSE <<rest>>)

\* the segments of a message text after its UNA service string advice
MessageSegments(text) ==
    SplitSegments(SubSeq(text, Len(UNA_SEGMENT) + 1, Len(text)))

Tag(seg) == SubSeq(seg, 1, 3)

\* the characters of s before the first : or '
RECURSIVE UpToSeparator(_)
UpToSeparator(s) ==
    IF s = <<>> \/ Head(s) \in {":", "'"} THEN <<>> ELSE <<Head(s)>> \o UpToSeparator(Tail(s))

\* the amount of a list element "MOA+<qualifier>:<amount>..."
MoaAmount(seg) == UpToSeparator(SubSeq(seg, 8 + (IF seg[7] = ":" THEN 0 ELSE 1), Len(seg)))

MoaElements(qualifier) ==
    {j \in 1..Len(segments) : StartsWith(segments[j], <<"M", "O", "A", "+">> \o qualifier \o <<":">>)}

\* how many segments of segs carry tag
TagCount(segs, tag) == Cardinality({j \in 1..Len(segs) : Tag(segs[j]) = tag})

\* quantity x price summed over the items, exactly
RECURSIVE Subtotal(_)
Subtotal(items) ==
    IF items = <<>> THEN [coef |-> 0, scale |-> 0]
    ELSE DecAdd(DecMulInt(DecVal(PyStr(Head(items).price)), IntVal(PyStr(Head(items).quantity))),
                Subtotal(Tail(items)))

\* d to two fractional digits, round-half-up, as text
HalfUp2(d) == DecStr(Quantize2(d, "ROUND_HALF_UP"))

ItemParses(item) ==
    /\ item_has_required_fields(item)
    /\ IntOk(PyStr(item.quantity)) /\ DecOk(PyStr(item.price))

(***************************************************************************)
(* Claims                                                                  *)
(***************************************************************************)
\* C1: in refactor2, the count declared in UNT equals the number of segments of
\* the returned text from UNH through UNT inclusive (UNA not counted), for every
\* accepted document and every combination of optional fields.
C1_UntCountMatchesText ==
    (variant = "r2" /\ result.kind = "returned")
        => segment_count = Len(MessageSegments(result.text))

\* C2: in order_export.generate_orders, for a document that passes validate_data,
\* parties lacking qualifier or id and items lacking product_code, description,
\* quantity or price are left out, generation does not abort, and the message is
\* returned with the segments of all remaining valid parties and items.  (Stated
\* for documents whose complete items parse, and for runs whose file write
\* succeeds, so that only the missing fields are at stake.)
C2_InvalidEntitiesSkipped ==
    (/\ variant = "export" /\ pc = "done"
     /\ validate_data(input) = ""
     /\ \A j \in 1..Len(input.items.l) :
           item_has_required_fields(input.items.l[j]) => ItemParses(input.items.l[j])
     /\ (output_file => file.written))
        => /\ result.kind = "returned"
           /\ result.text # <<>>
           /\ TagCount(MessageSegments(result.text), <<"N", "A", "D">>)
                = Cardinality({j \in 1..Len(input.parties.l) :
                                Has(input.parties.l[j].qualifier) /\ Has(input.parties.l[j].id)})
           /\ TagCount(MessageSegments(result.text), <<"L", "I", "N">>)
                = Cardinality({j \in 1..Len(input.items.l) :
                                item_has_required_fields(input.items.l[j])})

\* C3: in refactor2, when order_number is absent or empty, generation fails with
\* a missing-field error that identifies order_number, and no message text is
\* returned or written.
C3_MissingOrderNumberRejected ==
    (variant = "r2" /\ pc = "done" /\ ~Truthy(input.order_number))
        => /\ result.kind = "raised"
           /\ result.error.type = "EdifactGenerationError"
           /\ result.error.code = "VALID_001"
           /\ result.error.field = "order_number"
           /\ ~file.written

\* C4: in the text refactor2 returns, every ? ' + : that comes from a user-supplied
\* field value is preceded by a release character, so that the number of
\* unreleased segment terminators equals the number of segments emitted (one per
\* list element, two for a NAD element with a contact name).
C4_UserValuesReleased ==
    (variant = "r2" /\ result.kind = "returned")
        => /\ segments[2] = <<"U", "N", "H", "+">> \o Released(input.message_ref.s) \o <<"+", "O", "R", "D", "E", "R", "S", ":", "D", ":", "9", "6", "A", ":", "U", "N", "'">>
           /\ segments[3] = <<"B", "G", "M", "+", "2", "2", "0", "+">> \o Released(input.order_number.s) \o <<"+", "9", "'">>
           /\ Len(MessageSegments(result.text)) + 1
                = Len(segments) + Cardinality({j \in 1..Len(input.parties.l) :
                                                 Truthy(input.parties.l[j].name)})

\* C5: escape_edifact returns its argument with exactly one ? inserted before
\* each of ? ' + : * and nothing else added, removed, changed or reordered; a ?
\* inserted for one delimiter is never escaped again for a later one.
C5_EscapeInsertsOneRelease ==
    pc = "escaped" => value = Released(original) /\ escape_edifact(original) = value

C5_Witness ==
    /\ pc = "escaped"
    /\ \E a, b \in 1..Len(original) : original[a] = "?" /\ original[b] \in {"'", "+", ":", "*"}
    /\ Len(value) = Len(original) + 2

\* C6: with no tax rate, the amount of MOA+79 is the exact sum of quantity x
\* price over the items, rounded once to two fractional digits round-half-up, in
\* each of the three generators.
C6_TotalRoundedHalfUpOnce ==
    (pc = "write" /\ ~Has(input.tax_rate))
        => /\ MoaElements(<<"7", "9">>) # {}
           /\ \A j \in MoaElements(<<"7", "9">>) :
                 MoaAmount(segments[j]) = HalfUp2(Subtotal(input.items.l))

\* C7: with a tax rate, in refactor1 and refactor2, the amount of MOA+124 is
\* subtotal x rate / 100 rounded to two fractional digits round-half-up, the
\* subtotal being the exact sum of quantity x price, and the amount of MOA+79 is
\* the subtotal plus that rounded tax amount (written with two fractional digits).
C7_TaxRoundedThenAdded ==
    (pc = "write" /\ variant \in {"r1", "r2"} /\ Has(input.tax_rate))
        => LET subtotal == Subtotal(input.items.l)
               rate == DecVal(PyStr(input.tax_rate))
               tax_amount == Quantize2(DecDiv100(DecMul(subtotal, rate)), "ROUND_HALF_UP")
           IN /\ MoaElements(<<"1", "2", "4">>) # {}
              /\ \A j \in MoaElements(<<"1", "2", "4">>) : MoaAmount(segments[j]) = DecStr(tax_amount)
              /\ MoaElements(<<"7", "9">>) # {}
              /\ \A j \in MoaElements(<<"7", "9">>) :
                    MoaAmount(segments[j]) = HalfUp2(DecAdd(subtotal, tax_amount))

\* the first item whose quantity or price does not parse, 0 when all do
FirstUnparsable(items) ==
    IF \E j \in 1..Len(items) : ~ItemParses(items[j])
    THEN CHOOSE j \in 1..Len(items) : ~ItemParses(items[j]) /\ \A h \in 1..(j - 1) : ItemParses(items[h])
    ELSE 0

\* C8: in refactor2's validate_order_data, an item quantity, an item price or a
\* present tax_rate that does not parse ends validation with the typed
\* invalid-numeric error (EdifactGenerationError, VALID_005) naming the item
\* index and the field; no other exception leaves validation.  (Stated for
\* documents that pass the earlier checks and whose items have all four keys.)
C8_UnparsableNumberIsValid005 ==
    (/\ variant = "r2" /\ pc = "done"
     /\ r2_required_fields_present(input) /\ input.items.l # <<>>
     /\ validate_date(input.order_date.s)
     /\ (Truthy(input.delivery_date) => validate_date(input.delivery_date.s))
     /\ \A j \in 1..Len(input.items.l) : item_has_required_fields(input.items.l[j])
     /\ \/ FirstUnparsable(input.items.l) # 0
        \/ Truthy(input.tax_rate) /\ ~DecOk(PyStr(input.tax_rate)))
        => /\ result.kind = "raised"
           /\ result.error.type = "EdifactGenerationError"
           /\ result.error.code = "VALID_005"
           /\ result.error.field \in {"quantity", "price", "tax_rate"}
           /\ result.error.index = FirstUnparsable(input.items.l)

\* C9: when a file sink is requested and the write fails, the generator reports
\* the I/O failure to the caller and the text built before the write still
\* reaches the caller.
C9_WriteFailureKeepsText ==
    (pc = "done" /\ output_file /\ ~file.written)
        => /\ result.kind = "raised"
           /\ result.text = message

HeaderTags == {<<"U", "N", "H">>, <<"B", "G", "M">>, <<"D", "T", "M">>, <<"C", "U", "X">>, <<"N", "A", "D">>, <<"C", "T", "A">>, <<"C", "O", "M">>}

ItemTags == <<<<"L", "I", "N">>, <<"I", "M", "D">>, <<"Q", "T", "Y">>, <<"P", "R", "I">>>>

\* C10: for n valid items the message of refactor2 holds, after all party
\* segments and before any tax or total segment, exactly n consecutive groups of
\* four segments LIN, IMD, QTY, PRI, one per item in input order, the LIN of the
\* k-th group carrying line number k.
C10_ItemGroups ==
    (variant = "r2" /\ result.kind = "returned")
        => LET segs == MessageSegments(result.text)
               n == Len(input.items.l)
           IN \E p \in 0..Len(segs) :
                /\ p + 4 * n <= Len(segs)
                /\ \A j \in 1..p : Tag(segs[j]) \in HeaderTags
                /\ \A g \in 1..n :
                      /\ \A t \in 1..4 : Tag(segs[p + 4 * (g - 1) + t]) = ItemTags[t]
                      /\ StartsWith(segs[p + 4 * (g - 1) + 1], <<"L", "I", "N", "+">> \o IntStr(g) \o <<"+">>)
                /\ \A j \in (p + 4 * n + 1)..Len(segs) :
                      Tag(segs[j]) \notin HeaderTags /\ \A t \in 1..4 : Tag(segs[j]) # ItemTags[t]

\* the place of the first segment of segs that carries tag, 0 when none does
FirstTagged(segs, tag) ==
    IF TagCount(segs, tag) = 0 THEN 0
    ELSE CHOOSE j \in 1..Len(segs) : Tag(segs[j]) = tag /\ \A h \in 1..(j - 1) : Tag(segs[h]) # tag

\* every segment tagged first, if any, stands before every segment tagged second
Before(segs, first, second) ==
    \A a, b \in 1..Len(segs) : (Tag(segs[a]) = first /\ Tag(segs[b]) = second) => a < b

\* C11: in the message of refactor2, each optional segment is emitted exactly
\* when its field is present in the document, and those present appear in the
\* order LOC, PAI, TAX immediately followed by MOA+124, FTX.
C11_OptionalSegmentsInOrder ==
    (variant = "r2" /\ result.kind = "returned")
        => LET segs == MessageSegments(result.text)
               once(tag, field) == TagCount(segs, tag) = (IF Has(field) THEN 1 ELSE 0)
               t == FirstTagged(segs, <<"T", "A", "X">>)
           IN /\ once(<<"L", "O", "C">>, input.delivery_location)
              /\ once(<<"P", "A", "I">>, input.payment_terms)
              /\ once(<<"T", "A", "X">>, input.tax_rate)
              /\ once(<<"F", "T", "X">>, input.special_instructions)
              /\ t # 0 => (t < Len(segs) /\ StartsWith(segs[t + 1], <<"M", "O", "A", "+", "1", "2", "4", ":">>))
              /\ Before(segs, <<"L", "O", "C">>, <<"P", "A", "I">>)
              /\ Before(segs, <<"L", "O", "C">>, <<"T", "A", "X">>)
              /\ Before(segs, <<"P", "A", "I">>, <<"T", "A", "X">>)
              /\ Before(segs, <<"T", "A", "X">>, <<"F", "T", "X">>)
              /\ Before(segs, <<"L", "O", "C">>, <<"F", "T", "X">>)
              /\ Before(segs, <<"P", "A", "I">>, <<"F", "T", "X">>)

\* C12: a call of refactor2's generate_edifact_orders / validate_order_data
\* leaves the caller's document unchanged: when it has returned or raised, the
\* items list (each item's fields and values) and tax_rate are what they were
\* before the call.
C12_DocumentUnchanged ==
    (variant = "r2" /\ pc = "done")
        => data.items = input.items /\ data.tax_rate = input.tax_rate

====
